---- MODULE Spec2Model ----
(***************************************************************************)
(* A model of qiskit_addon_sqd/fermion.py: the configuration codec         *)
(* (bitstring_matrix_to_ci_strs, _check_ci_strs), the excitation expander  *)
(* (enlarge_batch_from_transitions), the generator of the orbital rotation *)
(* (_antisymmetric_matrix_from_upper_tri) and the orbital optimization     *)
(* loop (rotate_integrals, optimize_orbitals, _optimize_orbitals_sci).     *)
(*                                                                         *)
(* A determinant is an integer that may need 54 bits and more; it is held  *)
(* as the set of the positions of the 1 bits of its binary expansion       *)
(* (position 0 is the least significant bit), so that 2^53 + 1 is {53, 0}. *)
(***************************************************************************)
EXTENDS Integers, Sequences, FiniteSets, TLC

VARIABLES codec, expand, gen, orb, sci, solve

vars == <<codec, expand, gen, orb, sci, solve>>

(***************************************************************************)
(* Bounds of the model.                                                    *)
(***************************************************************************)
\* The number of freely chosen bits of a bitstring matrix (rows x columns).
MaxBits == 12

\* The significand precision of the float64 accumulators ci_str_left and
\* ci_str_right (np.zeros without a dtype).
MantissaBits == 53

\* The narrowest half whose determinants no longer all fit the significand.
WideNorb == MantissaBits + 1

(***************************************************************************)
(* Helpers on sequences and sets.                                          *)
(***************************************************************************)
Max(S) == CHOOSE x \in S : \A y \in S : y <= x

Range(s) == {s[i] : i \in 1..Len(s)}

RECURSIVE SeqsUpTo(_, _)
\* All sequences over S of length at most n.
SeqsUpTo(S, n) ==
  IF n = 0 THEN {<<>>}
  ELSE LET shorter == SeqsUpTo(S, n - 1)
       IN  shorter \cup {Append(s, x) : s \in {t \in shorter : Len(t) = n - 1}, x \in S}

(***************************************************************************)
(* Integers as sets of bit positions, and float64 addition on them.        *)
(***************************************************************************)
\* a < b for two integers given by their binary expansions.
IntLess(a, b) == a # b /\ Max((a \ b) \cup (b \ a)) \in b

RECURSIVE AddPow2(_, _)
\* The exact sum x + 2^k (ripple carry).
AddPow2(x, k) == IF k \in x THEN AddPow2(x \ {k}, k + 1) ELSE x \cup {k}

\* Round a non-negative integer to MantissaBits significant bits, to nearest,
\* ties to even: what a float64 holds after an addition.
RoundFloat64(x) ==
  IF x = {} THEN x
  ELSE LET ulp  == Max(x) - (MantissaBits - 1)
           low  == {p \in x : p < ulp}
           high == x \ low
       IN  IF low = {} THEN x
           ELSE IF (ulp - 1) \notin low THEN high
           ELSE IF low = {ulp - 1} /\ ulp \notin high THEN high
           ELSE AddPow2(high, ulp)

\* acc += bit * 2 ** k on a float64 accumulator.
Float64AddBit(acc, bit, k) == IF bit THEN RoundFloat64(AddPow2(acc, k)) ELSE acc

\* format(x, "b").count("1")
HammingWeight(x) == Cardinality(x)

(***************************************************************************)
(* numpy's sort, unique and union1d.                                       *)
(***************************************************************************)
RECURSIVE InsertSorted(_, _)
InsertSorted(s, x) ==
  IF s = <<>> THEN <<x>>
  ELSE IF IntLess(x, Head(s)) \/ x = Head(s) THEN <<x>> \o s
  ELSE <<Head(s)>> \o InsertSorted(Tail(s), x)

RECURSIVE np_sort(_)
np_sort(s) == IF s = <<>> THEN <<>> ELSE InsertSorted(np_sort(Tail(s)), Head(s))

RECURSIVE DropAdjacentDuplicates(_)
DropAdjacentDuplicates(s) ==
  IF Len(s) <= 1 THEN s
  ELSE IF s[1] = s[2] THEN DropAdjacentDuplicates(Tail(s))
  ELSE <<s[1]>> \o DropAdjacentDuplicates(Tail(s))

np_unique_KeepDuplicates(s) == np_sort(s)

\* np.unique: the sorted array with equal neighbours dropped.
np_unique(s) == DropAdjacentDuplicates(np_sort(s))

\* np.union1d(a, b) is unique(concatenate((a, b))).
np_union1d(a, b) == np_unique(a \o b)

(***************************************************************************)
(* bitstring_matrix_to_ci_strs.  A bitstring matrix is a sequence of rows, *)
(* each a sequence of 2*norb booleans; column c of the code is index c+1.  *)
(***************************************************************************)
RECURSIVE AccumulateCiStr(_, _, _, _)
\* The loop "for i in range(norb): ci_str += bts[:, i] * 2 ** (norb - 1 - i)"
\* on one row's half, from column i on.
AccumulateCiStr(half, norb, i, acc) ==
  IF i = norb THEN acc
  ELSE AccumulateCiStr(half, norb, i + 1, Float64AddBit(acc, half[i + 1], norb - 1 - i))

LeftHalf(row, norb) == SubSeq(row, 1, norb)

RightHalf(row, norb) == SubSeq(row, norb + 1, 2 * norb)

\* ci_str_left and ci_str_right after the loop and astype("longlong").
ci_str_left(bitstring_matrix, norb) ==
  [r \in 1..Len(bitstring_matrix) |->
     AccumulateCiStr(LeftHalf(bitstring_matrix[r], norb), norb, 0, {})]

ci_str_right(bitstring_matrix, norb) ==
  [r \in 1..Len(bitstring_matrix) |->
     AccumulateCiStr(RightHalf(bitstring_matrix[r], norb), norb, 0, {})]

\* The pair (ci_strs_right, ci_strs_left) the function returns; norb is
\* bitstring_matrix.shape[1] // 2.
bitstring_matrix_to_ci_strs(bitstring_matrix, norb, open_shell) ==
  LET ci_strs_right == np_unique(ci_str_right(bitstring_matrix, norb))
      ci_strs_left  == np_unique(ci_str_left(bitstring_matrix, norb))
      both          == np_union1d(ci_strs_left, ci_strs_right)
  IN  IF open_shell THEN <<ci_strs_right, ci_strs_left>> ELSE <<both, both>>

(***************************************************************************)
(* _check_ci_strs: the result is the returned pair or the exception.       *)
(***************************************************************************)
SectorUniform_FirstTwoOnly(addr) ==
  \A i \in 1..Len(addr) : i <= 2 => HammingWeight(addr[i]) = HammingWeight(addr[1])

\* No element of addr has a Hamming weight other than that of addr[0].
SectorUniform(addr) ==
  \A i \in 1..Len(addr) : HammingWeight(addr[i]) = HammingWeight(addr[1])

_check_ci_strs(ci_strs) ==
  LET addr_up == ci_strs[1]
      addr_dn == ci_strs[2]
  IN  IF addr_up = <<>> THEN [err |-> "IndexError", val |-> <<>>]
      ELSE IF ~SectorUniform(addr_up) THEN [err |-> "ValueError", val |-> <<>>]
      ELSE IF addr_dn = <<>> THEN [err |-> "IndexError", val |-> <<>>]
      ELSE IF ~SectorUniform(addr_dn) THEN [err |-> "ValueError", val |-> <<>>]
      ELSE [err |-> "none",
            val |-> <<np_sort(np_unique(addr_up)), np_sort(np_unique(addr_dn))>>]

(***************************************************************************)
(* The codec as a state machine: the caller's matrix, then the call of     *)
(* bitstring_matrix_to_ci_strs, then the call of _check_ci_strs, as in     *)
(* solve_fermion and optimize_orbitals.                                    *)
(***************************************************************************)
\* The columns of a half that the inputs choose freely; the others are 0.
FreeColumns(norb) == IF norb = WideNorb THEN {1, norb} ELSE 1..norb

Halves(norb) ==
  {[c \in 1..norb |-> c \in occ] : occ \in SUBSET FreeColumns(norb)}

Rows(norb) == {l \o r : l \in Halves(norb), r \in Halves(norb)}

MaxRows(norb) == MaxBits \div (2 * Cardinality(FreeColumns(norb)))

Norbs == {n \in 1..(MaxBits \div 2) : TRUE} \cup {WideNorb}

ExpandIdle == [pc |-> "idle"]

GenIdle == [pc |-> "idle"]

OrbIdle == [pc |-> "idle"]

SciIdle == [pc |-> "idle"]

SolveIdle == [pc |-> "idle"]

CodecIdle ==
  [pc |-> "idle", norb |-> 0, bitstring_matrix |-> <<>>, open_shell |-> FALSE,
   ci_strs |-> <<>>, err |-> "none"]

CodecInit ==
  /\ \E norb \in Norbs, open_shell \in BOOLEAN :
       \E m \in SeqsUpTo(Rows(norb), MaxRows(norb)) :
         codec = [pc |-> "input", norb |-> norb, bitstring_matrix |-> m,
                  open_shell |-> open_shell, ci_strs |-> <<>>, err |-> "none"]
  /\ expand = ExpandIdle
  /\ gen = GenIdle
  /\ orb = OrbIdle
  /\ sci = SciIdle
  /\ solve = SolveIdle

\* ci_strs = bitstring_matrix_to_ci_strs(bitstring_matrix, open_shell=open_shell)
Encode ==
  /\ codec.pc = "input"
  /\ codec' = [codec EXCEPT
       !.pc = "encoded",
       !.ci_strs = bitstring_matrix_to_ci_strs(codec.bitstring_matrix, codec.norb,
                                               codec.open_shell)]
  /\ UNCHANGED <<expand, gen, orb, sci, solve>>

\* ci_strs = _check_ci_strs(ci_strs)
CheckCiStrs ==
  /\ codec.pc = "encoded"
  /\ LET res == _check_ci_strs(codec.ci_strs)
     IN  codec' = [codec EXCEPT
           !.pc = IF res.err = "none" THEN "checked" ELSE "raised",
           !.ci_strs = IF res.err = "none" THEN res.val ELSE codec.ci_strs,
           !.err = res.err]
  /\ UNCHANGED <<expand, gen, orb, sci, solve>>

CodecNext == Encode \/ CheckCiStrs

SpecCodec == CodecInit /\ [][CodecNext]_vars

(***************************************************************************)
(* Properties of the codec.                                                *)
(***************************************************************************)
\* The binary expansion of the sum over columns c in 0..n-1 of
\* bit[c] * 2^(n-1-c): bit position n-1-c is set exactly when column c is.
BigEndianValue(half) == {Len(half) - c : c \in {d \in 1..Len(half) : half[d]}}

RightValues == {BigEndianValue(RightHalf(codec.bitstring_matrix[r], codec.norb)) :
                  r \in 1..Len(codec.bitstring_matrix)}

LeftValues == {BigEndianValue(LeftHalf(codec.bitstring_matrix[r], codec.norb)) :
                 r \in 1..Len(codec.bitstring_matrix)}

\* C1: every half maps to the integer sum of bit[c] * 2^(n-1-c), so distinct
\* occupation patterns give distinct determinants; with open_shell the first
\* returned array holds the values of the right halves and the second those
\* of the left halves.
C1_BigEndianEncoding ==
  (codec.pc = "encoded" /\ codec.open_shell) =>
     /\ Range(codec.ci_strs[1]) = RightValues
     /\ Range(codec.ci_strs[2]) = LeftValues

StrictlyIncreasing(s) == \A i \in 1..(Len(s) - 1) : IntLess(s[i], s[i + 1])

EncodedRight == Range(ci_str_right(codec.bitstring_matrix, codec.norb))

EncodedLeft == Range(ci_str_left(codec.bitstring_matrix, codec.norb))

\* C2: each returned array is strictly increasing; with open_shell it holds
\* exactly the determinants of its half, and without open_shell both arrays
\* are equal and hold exactly the union of the two halves' determinants.
C2_SortedUniqueAndUnion ==
  codec.pc = "encoded" =>
     /\ StrictlyIncreasing(codec.ci_strs[1])
     /\ StrictlyIncreasing(codec.ci_strs[2])
     /\ codec.open_shell =>
          /\ Range(codec.ci_strs[1]) = EncodedRight
          /\ Range(codec.ci_strs[2]) = EncodedLeft
     /\ ~codec.open_shell =>
          /\ codec.ci_strs[1] = codec.ci_strs[2]
          /\ Range(codec.ci_strs[1]) = EncodedRight \cup EncodedLeft

\* A closed-shell matrix of two rows whose right halves are out of order and
\* whose left halves are equal to each other and no right half.
C2_Witness ==
  /\ codec.pc = "encoded"
  /\ ~codec.open_shell
  /\ Len(codec.bitstring_matrix) = 2
  /\ LET right == ci_str_right(codec.bitstring_matrix, codec.norb)
         left  == ci_str_left(codec.bitstring_matrix, codec.norb)
     IN  /\ IntLess(right[2], right[1])
         /\ left[1] = left[2]
         /\ left[1] \notin Range(right)
         /\ Len(codec.ci_strs[1]) = 3

\* All determinants of the sector have one Hamming weight.
OneWeight(addr) == \E w \in 0..codec.norb : \A x \in Range(addr) : Cardinality(x) = w

\* C3 as stated: bitstring_matrix_to_ci_strs returns no result whose sectors
\* mix Hamming weights.
C3_EncodeRejectsMixedWeights ==
  codec.pc = "encoded" => OneWeight(codec.ci_strs[1]) /\ OneWeight(codec.ci_strs[2])

\* What bitstring_matrix_to_ci_strs returned for the caller's matrix.
Assembled ==
  bitstring_matrix_to_ci_strs(codec.bitstring_matrix, codec.norb, codec.open_shell)

\* C3 (amended): the weights are checked by _check_ci_strs on the encoded
\* result: for a matrix with a row it raises ValueError exactly when a sector
\* of the assembled set mixes Hamming weights, and a set it returns has one
\* weight per sector; for a matrix without rows it raises IndexError.
C3_CheckRejectsMixedWeights ==
  /\ codec.pc = "encoded" => codec.err = "none"
  /\ codec.pc \in {"checked", "raised"} =>
       /\ Len(codec.bitstring_matrix) = 0 <=> codec.err = "IndexError"
       /\ Len(codec.bitstring_matrix) > 0 =>
            (codec.err = "ValueError"
               <=> ~(OneWeight(Assembled[1]) /\ OneWeight(Assembled[2])))
       /\ (codec.pc = "raised") <=> (codec.err # "none")
  /\ codec.pc = "checked" =>
       /\ OneWeight(codec.ci_strs[1]) /\ OneWeight(codec.ci_strs[2])
       /\ codec.ci_strs = Assembled

\* A closed-shell matrix whose union holds three determinants, the third of
\* another weight than the first two, is rejected by _check_ci_strs.
C3_Witness ==
  /\ codec.pc = "raised"
  /\ codec.err = "ValueError"
  /\ Len(codec.ci_strs[1]) >= 3
  /\ Cardinality(codec.ci_strs[1][1]) = Cardinality(codec.ci_strs[1][2])
  /\ Cardinality(codec.ci_strs[1][3]) # Cardinality(codec.ci_strs[1][1])

(***************************************************************************)
(* The excitation expander.  An array is a record of its number of         *)
(* dimensions and its data: a 2D array holds a sequence of rows, a 1D      *)
(* array a sequence of scalars, and a slice along axis 0 has one dimension *)
(* less.                                                                   *)
(***************************************************************************)
\* The freely chosen bits of the configurations and symbols of the operators.
MaxExpandBits == 4

MaxSymbols == 4

Symbols == {"I", "+", "-", "n"}

Array(ndim, data) == [ndim |-> ndim, data |-> data]

\* x[o] for an array of one or two dimensions.
Slice(x, o) == Array(x.ndim - 1, x.data[o])

\* string_rep == sym, elementwise on a 1D or 2D array.
EqualsSymbol(string_rep, sym) ==
  IF string_rep.ndim = 1
  THEN Array(1, [i \in 1..Len(string_rep.data) |-> string_rep.data[i] = sym])
  ELSE Array(2, [o \in 1..Len(string_rep.data) |->
                   [i \in 1..Len(string_rep.data[o]) |-> string_rep.data[o][i] = sym]])

\* np.logical_or of two arrays of one shape.
logical_or(a, b) ==
  IF a.ndim = 1
  THEN Array(1, [i \in 1..Len(a.data) |-> a.data[i] \/ b.data[i]])
  ELSE Array(2, [o \in 1..Len(a.data) |->
                   [i \in 1..Len(a.data[o]) |-> a.data[o][i] \/ b.data[o][i]]])

_transition_str_to_bool_DiagIsNumber(string_rep) ==
  <<EqualsSymbol(string_rep, "n"),
    logical_or(EqualsSymbol(string_rep, "+"), EqualsSymbol(string_rep, "n")),
    logical_or(EqualsSymbol(string_rep, "-"), EqualsSymbol(string_rep, "n"))>>

\* The triple (diag, create, annihilate) of masks of the shape of string_rep.
_transition_str_to_bool(string_rep) ==
  <<logical_or(EqualsSymbol(string_rep, "I"), EqualsSymbol(string_rep, "n")),
    logical_or(EqualsSymbol(string_rep, "+"), EqualsSymbol(string_rep, "n")),
    logical_or(EqualsSymbol(string_rep, "-"), EqualsSymbol(string_rep, "n"))>>

_apply_excitation_single_NoDiagExemption(single_bts, diag, create, annihilate) ==
  IF diag.ndim = 0
  THEN [err |-> "TypeError", bts_ret |-> <<>>, include_crit |-> FALSE]
  ELSE LET width  == Len(diag.data)
           falses == [i \in 1..width |-> FALSE]
       IN  [err |-> "none",
            bts_ret |-> [i \in 1..width |-> single_bts[i] = diag.data[i]],
            include_crit |->
              /\ \A i \in 1..width : falses[i] = (single_bts[i] /\ create.data[i])
              /\ \A i \in 1..width :
                   falses[i] = ((falses[i] = single_bts[i]) /\ annihilate.data[i])]

_apply_excitation_single_FlipOnCreate(single_bts, diag, create, annihilate) ==
  IF diag.ndim = 0
  THEN [err |-> "TypeError", bts_ret |-> <<>>, include_crit |-> FALSE]
  ELSE LET width  == Len(diag.data)
           falses == [i \in 1..width |-> FALSE]
       IN  [err |-> "none",
            bts_ret |-> [i \in 1..width |-> single_bts[i] # create.data[i]],
            include_crit |->
              /\ \A i \in 1..width :
                   diag.data[i] \/ (falses[i] = (single_bts[i] /\ create.data[i]))
              /\ \A i \in 1..width :
                   falses[i] = ((falses[i] = single_bts[i]) /\ annihilate.data[i])]

\* One operator on one configuration.  len(diag) of a mask without a
\* dimension raises TypeError ("len() of unsized object").
_apply_excitation_single(single_bts, diag, create, annihilate) ==
  IF diag.ndim = 0
  THEN [err |-> "TypeError", bts_ret |-> <<>>, include_crit |-> FALSE]
  ELSE LET width  == Len(diag.data)
           falses == [i \in 1..width |-> FALSE]
       IN  [err |-> "none",
            bts_ret |-> [i \in 1..width |-> single_bts[i] = diag.data[i]],
            include_crit |->
              /\ \A i \in 1..width :
                   diag.data[i] \/ (falses[i] = (single_bts[i] /\ create.data[i]))
              /\ \A i \in 1..width :
                   falses[i] = ((falses[i] = single_bts[i]) /\ annihilate.data[i])]

\* vmap over axis 0 of the masks (the operators), and inside it vmap over
\* axis 0 of the bitstring matrix (the configurations): element [o][r] is
\* operator o on configuration r.  The function is traced once, whatever the
\* sizes of the batches, so its exception is that of the call.
apply_excitations(bitstring_matrix, diag, create, annihilate) ==
  LET width  == IF diag.ndim = 2 THEN Len(diag.data[1]) ELSE 0
      traced == _apply_excitation_single([i \in 1..width |-> FALSE], Slice(diag, 1),
                                         Slice(create, 1), Slice(annihilate, 1))
  IN  IF traced.err # "none" THEN [err |-> traced.err, val |-> <<>>]
      ELSE [err |-> "none",
            val |-> [o \in 1..Len(diag.data) |->
                       [r \in 1..Len(bitstring_matrix) |->
                          _apply_excitation_single(bitstring_matrix[r], Slice(diag, o),
                                                   Slice(create, o), Slice(annihilate, o))]]]

RECURSIVE MaskedPairs(_, _, _)
\* The index pairs (o, r) with mask[o][r] set, in row-major order from (o, r)
\* on: the order in which boolean indexing x[mask] selects.
MaskedPairs(applied, o, r) ==
  IF o > Len(applied) THEN <<>>
  ELSE IF r > Len(applied[o]) THEN MaskedPairs(applied, o + 1, 1)
  ELSE (IF applied[o][r].include_crit THEN <<<<o, r>>>> ELSE <<>>)
         \o MaskedPairs(applied, o, r + 1)

\* The result of enlarge_batch_from_transitions: the exception, the rows
\* returned, and for each returned row the pair (operator, configuration) it
\* comes from.
enlarge_batch_from_transitions(bitstring_matrix, transition_operators) ==
  LET masks   == _transition_str_to_bool(transition_operators)
      applied == apply_excitations(bitstring_matrix, masks[1], masks[2], masks[3])
      pairs   == MaskedPairs(applied.val, 1, 1)
  IN  IF applied.err # "none" THEN [err |-> applied.err, out |-> <<>>, pairs |-> <<>>]
      ELSE [err |-> "none",
            out |-> [i \in 1..Len(pairs) |-> applied.val[pairs[i][1]][pairs[i][2]].bts_ret],
            pairs |-> pairs]

BoolRows(width) == [1..width -> BOOLEAN]

SymbolRows(width) == [1..width -> Symbols]

ExpandInit ==
  /\ \E width \in 1..MaxSymbols :
       \E m \in SeqsUpTo(BoolRows(width), MaxExpandBits \div width),
          ops \in SeqsUpTo(SymbolRows(width), MaxSymbols \div width) \ {<<>>},
          ndim \in {1, 2} :
         /\ ndim = 1 => Len(ops) = 1
         /\ expand = [pc |-> "input", width |-> width, bitstring_matrix |-> m,
                      transition_operators |->
                        IF ndim = 1 THEN Array(1, ops[1]) ELSE Array(2, ops),
                      out |-> <<>>, pairs |-> <<>>, err |-> "none"]
  /\ codec = CodecIdle
  /\ gen = GenIdle
  /\ orb = OrbIdle
  /\ sci = SciIdle
  /\ solve = SolveIdle

\* The call enlarge_batch_from_transitions(bitstring_matrix, transition_operators).
EnlargeBatch ==
  /\ expand.pc = "input"
  /\ LET res == enlarge_batch_from_transitions(expand.bitstring_matrix,
                                               expand.transition_operators)
     IN  expand' = [expand EXCEPT
           !.pc = IF res.err = "none" THEN "returned" ELSE "raised",
           !.out = res.out, !.pairs = res.pairs, !.err = res.err]
  /\ UNCHANGED <<codec, gen, orb, sci, solve>>

ExpandNext == EnlargeBatch

SpecExpand == ExpandInit /\ [][ExpandNext]_vars

(***************************************************************************)
(* Properties of the excitation expander.                                  *)
(***************************************************************************)
\* The operator rows of a 2D array of transition operators.
OperatorRows == expand.transition_operators.data

\* The validity of a (configuration, operator) pair in terms of the symbols.
PairValid(cfg, op) ==
  \A i \in 1..Len(op) :
     /\ op[i] = "+" => ~cfg[i]
     /\ op[i] \in {"-", "n"} => cfg[i]

\* The configuration an operator makes of a configuration.
NewRow(cfg, op) ==
  [i \in 1..Len(op) |-> IF op[i] \in {"I", "n"} THEN cfg[i] ELSE ~cfg[i]]

AllPairs ==
  {<<o, r>> : o \in 1..Len(OperatorRows), r \in 1..Len(expand.bitstring_matrix)}

ValidPairs ==
  {p \in AllPairs : PairValid(expand.bitstring_matrix[p[2]], OperatorRows[p[1]])}

\* C6: a (configuration, operator) pair survives into the output if and only
\* if every '+' meets an unoccupied bit and every '-' or 'n' an occupied bit.
C6_SurvivesIffValid ==
  (expand.pc # "input" /\ expand.transition_operators.ndim = 2) =>
     /\ expand.pc = "returned"
     /\ Range(expand.pairs) = ValidPairs

\* Pairs excluded for each of the three reasons, and a Number on an occupied
\* position kept.
C6_Witness ==
  /\ expand.pc = "returned"
  /\ expand.transition_operators.ndim = 2
  /\ \E p \in AllPairs \ Range(expand.pairs) : \E i \in 1..expand.width :
       OperatorRows[p[1]][i] = "+" /\ expand.bitstring_matrix[p[2]][i]
  /\ \E p \in AllPairs \ Range(expand.pairs) : \E i \in 1..expand.width :
       OperatorRows[p[1]][i] = "-" /\ ~expand.bitstring_matrix[p[2]][i]
  /\ \E p \in AllPairs \ Range(expand.pairs) : \E i \in 1..expand.width :
       OperatorRows[p[1]][i] = "n" /\ ~expand.bitstring_matrix[p[2]][i]
  /\ \E p \in Range(expand.pairs) : \E i \in 1..expand.width :
       OperatorRows[p[1]][i] = "n" /\ expand.bitstring_matrix[p[2]][i]

\* C7: the output holds exactly one row per valid pair of the cross product
\* (every row as often as valid pairs produce it, and no other row), each the
\* configuration with the bits under '+' and '-' flipped, of the input's width.
C7_OneRowPerValidPair ==
  (expand.pc # "input" /\ expand.transition_operators.ndim = 2) =>
     /\ expand.pc = "returned"
     /\ Len(expand.out) = Cardinality(ValidPairs)
     /\ \A i \in 1..Len(expand.out) : DOMAIN expand.out[i] = 1..expand.width
     /\ \A row \in BoolRows(expand.width) :
          Cardinality({i \in 1..Len(expand.out) : expand.out[i] = row})
            = Cardinality({p \in ValidPairs :
                 NewRow(expand.bitstring_matrix[p[2]], OperatorRows[p[1]]) = row})

\* Two valid pairs give the same row, which the output holds twice; a '+' and
\* a '-' have flipped bits.
C7_Witness ==
  /\ expand.pc = "returned"
  /\ expand.transition_operators.ndim = 2
  /\ Cardinality(Range(expand.out)) < Len(expand.out)
  /\ \E p \in Range(expand.pairs) : \E i, j \in 1..expand.width :
       OperatorRows[p[1]][i] = "+" /\ OperatorRows[p[1]][j] = "-"

IdentityOnly ==
  /\ expand.transition_operators.ndim = 2
  /\ Len(OperatorRows) = 1
  /\ \A i \in 1..expand.width : OperatorRows[1][i] = "I"

\* C8: with a single all-'I' operator row the call returns exactly the input
\* bitstring matrix, every row kept, in the input's order.
C8_IdentityReturnsInput ==
  (expand.pc # "input" /\ IdentityOnly) =>
     /\ expand.pc = "returned"
     /\ expand.out = expand.bitstring_matrix
     /\ expand.pairs = [r \in 1..Len(expand.bitstring_matrix) |-> <<1, r>>]

\* The identity on a matrix with a repeated row and rows out of sorted order.
C8_Witness ==
  /\ expand.pc = "returned"
  /\ IdentityOnly
  /\ Len(expand.out) >= 3
  /\ expand.out[1] = expand.out[3]
  /\ expand.out[1] # expand.out[2]

\* C9: a 1D array of symbols is accepted: the call completes without error
\* and returns the rows it returns for the 2D array whose only row it is.
C9_OneDimensionalAccepted ==
  (expand.pc # "input" /\ expand.transition_operators.ndim = 1) =>
     /\ expand.pc = "returned"
     /\ expand.out =
          enlarge_batch_from_transitions(
            expand.bitstring_matrix, Array(2, <<expand.transition_operators.data>>)).out

(***************************************************************************)
(* The generator of the rotation.  A matrix is a function of the index     *)
(* pairs <<i, j>>, i and j in 0..k_dim-1; the entries of k_flat are        *)
(* integers.                                                               *)
(***************************************************************************)
\* The largest orbital count of a generator built on its own.
MaxDim == 4

\* The entries of k_flat range over -MaxEntry..MaxEntry.
MaxEntry == 1

Indices(k_dim) == (0..(k_dim - 1)) \X (0..(k_dim - 1))

RECURSIVE RowMajor(_)
\* The index pairs of S in row-major order.
RowMajor(S) ==
  IF S = {} THEN <<>>
  ELSE LET first == CHOOSE p \in S :
                      \A q \in S : p[1] < q[1] \/ (p[1] = q[1] /\ p[2] <= q[2])
       IN  <<first>> \o RowMajor(S \ {first})

\* jnp.triu_indices(k_dim, k=1) and jnp.tril_indices(k_dim, k=-1).
triu_indices(k_dim) == RowMajor({p \in Indices(k_dim) : p[1] < p[2]})

tril_indices(k_dim) == RowMajor({p \in Indices(k_dim) : p[1] > p[2]})

\* K.at[indices].set(values)
AtSet(K, indices, values) ==
  [p \in DOMAIN K |->
     IF \E q \in 1..Len(indices) : indices[q] = p
     THEN values[CHOOSE q \in 1..Len(indices) : indices[q] = p]
     ELSE K[p]]

_antisymmetric_matrix_from_upper_tri(k_flat, k_dim) ==
  LET zeros         == [p \in Indices(k_dim) |-> 0]
      upper_indices == triu_indices(k_dim)
      lower_indices == tril_indices(k_dim)
      upper         == AtSet(zeros, upper_indices, k_flat)
  IN  AtSet(upper, lower_indices, [q \in 1..Len(k_flat) |-> -k_flat[q]])

NumParams(norb) == (norb * norb - norb) \div 2

GenInit ==
  /\ \E k_dim \in 1..MaxDim :
       \E k_flat \in [1..NumParams(k_dim) -> (-MaxEntry)..MaxEntry] :
         gen = [pc |-> "input", k_dim |-> k_dim, k_flat |-> k_flat, K |-> <<>>]
  /\ codec = CodecIdle
  /\ expand = ExpandIdle
  /\ orb = OrbIdle
  /\ sci = SciIdle
  /\ solve = SolveIdle

\* K = _antisymmetric_matrix_from_upper_tri(k_flat, norb)
BuildGenerator ==
  /\ gen.pc = "input"
  /\ gen' = [gen EXCEPT !.pc = "built",
                        !.K = _antisymmetric_matrix_from_upper_tri(gen.k_flat, gen.k_dim)]
  /\ UNCHANGED <<codec, expand, orb, sci, solve>>

GenNext == BuildGenerator

SpecGen == GenInit /\ [][GenNext]_vars

(***************************************************************************)
(* Properties of the generator.                                            *)
(***************************************************************************)
\* The row-major position of (i, j), i < j, in the strict upper triangle.
UpperPosition(i, j, k_dim) == i * k_dim - (i * (i + 1)) \div 2 + (j - i)

\* C4: K is antisymmetric: its diagonal is zero, K[j,i] = -K[i,j] for i < j,
\* and K[i,j] for i < j is the entry of k_flat at the row-major position of
\* (i, j) in the strict upper triangle.
C4_GeneratorAntisymmetric ==
  gen.pc = "built" =>
     \A i, j \in 0..(gen.k_dim - 1) :
        /\ gen.K[<<i, i>>] = 0
        /\ i < j => /\ gen.K[<<i, j>>] = gen.k_flat[UpperPosition(i, j, gen.k_dim)]
                    /\ gen.K[<<j, i>>] = -gen.K[<<i, j>>]

(***************************************************************************)
(* rotate_integrals and optimize_orbitals.                                 *)
(*                                                                         *)
(* The tensors are terms: "hcore" and "eri" are the caller's integrals, a  *)
(* transposed or rotated tensor is the record of how it was made, and what *)
(* the CI solver returns is the record of what it was called with.  The    *)
(* arrays of rotation parameters are objects of a heap, since k_flat is    *)
(* updated in place: "caller" is the array the caller passed and "copy"    *)
(* the one k_flat.copy() makes.  An entry of k_flat or of the velocity is  *)
(* an integer count of units of 1/Scale.                                   *)
(***************************************************************************)
\* num_iters * num_steps_grad, num_iters and num_steps_grad are at most this.
MaxWork == 4

\* The largest orbital count of the integrals.
MaxOrbNorb == 3

\* The momentum optimize_orbitals passes to _optimize_orbitals_sci is
\* MomentumNum / MomentumDen.
MomentumNum == 9

MomentumDen == 10

RECURSIVE Power(_, _)
Power(b, e) == IF e = 0 THEN 1 ELSE b * Power(b, e - 1)

\* A velocity after s steps is a multiple of 1 / MomentumDen^(s-1).
Scale == Power(MomentumDen, MaxWork)

Transpose(axes, t) == [op |-> "transpose", axes |-> axes, of |-> t]

\* The result of rotate_integrals: the exception, the generators built on
\* the way, and the pair (hcore_rot, eri_rot), each the tensor and the
\* generator whose exponential rotates it.
rotate_integrals_BuildFirst(hcore, eri, k_flat, norb) ==
  LET num_params == NumParams(norb)
      K == _antisymmetric_matrix_from_upper_tri(k_flat, norb)
  IN  IF Len(k_flat) # num_params
      THEN [err |-> "ValueError", built |-> <<k_flat>>, val |-> <<>>]
      ELSE [err |-> "none", built |-> <<k_flat>>,
            val |-> <<[op |-> "rotate", of |-> hcore, K |-> K],
                      [op |-> "rotate", of |-> eri, K |-> K]>>]

rotate_integrals(hcore, eri, k_flat, norb) ==
  LET num_params == NumParams(norb)
  IN  IF Len(k_flat) # num_params
      THEN [err |-> "ValueError", built |-> <<>>, val |-> <<>>]
      ELSE LET K == _antisymmetric_matrix_from_upper_tri(k_flat, norb)
           IN  [err |-> "none", built |-> <<k_flat>>,
                val |-> <<[op |-> "rotate", of |-> hcore, K |-> K],
                          [op |-> "rotate", of |-> eri, K |-> K]>>]

\* fci.selected_ci.kernel_fixed_space: the energy and the amplitudes.
kernel_fixed_space(hcore, eri, norb, nelec, ci_strs) ==
  LET call == [h1e |-> hcore, eri |-> eri, norb |-> norb, nelec |-> nelec,
               ci_strs |-> ci_strs]
  IN  <<[op |-> "energy", of |-> call], [op |-> "amplitudes", of |-> call]>>

make_rdm12(amplitudes) ==
  <<[op |-> "dm1", of |-> amplitudes], [op |-> "dm2_chem", of |-> amplitudes]>>

make_rdm1s(amplitudes) ==
  <<[op |-> "dm1a", of |-> amplitudes], [op |-> "dm1b", of |-> amplitudes]>>

Diagonal(t) == [op |-> "diagonal", of |-> t]

\* The two halves a row of the loop's bitstring matrices is made of.
OrbHalves(norb) == {[c \in 1..norb |-> FALSE], [c \in 1..norb |-> c = 1]}

OrbMatrices(norb) ==
  SeqsUpTo({l \o r : l \in OrbHalves(norb), r \in OrbHalves(norb)}, 1)

\* The deprecated input: a pair of arrays of determinants.
OrbTuples(norb) ==
  LET arrays == SeqsUpTo({{}, {norb - 1}}, 1) IN arrays \X arrays

\* The arrays of rotation parameters the caller passes: of every length up
\* to one more than the longest valid one, all zero or 1, 2, 3, ...
KFlatInputs ==
  UNION {{[i \in 1..len |-> 0], [i \in 1..len |-> i * Scale]} :
           len \in 0..(NumParams(MaxOrbNorb) + 1)}

\* The gradients a step may find: none, all ones, or minus one at the front.
Gradients(len) ==
  {[i \in 1..len |-> 0], [i \in 1..len |-> 1],
   [i \in 1..len |-> IF i = 1 THEN -1 ELSE 0]}

OrbInit ==
  /\ \E fn \in {"rotate_integrals", "optimize_orbitals"},
        norb \in 1..MaxOrbNorb,
        k_flat \in KFlatInputs,
        is_tuple \in BOOLEAN,
        open_shell \in BOOLEAN,
        num_iters \in 0..MaxWork,
        num_steps_grad \in 0..MaxWork,
        learning_rate \in {0, 1} :
       \E bitstring_matrix \in
            IF is_tuple THEN OrbTuples(norb) ELSE OrbMatrices(norb) :
         /\ num_iters * num_steps_grad <= MaxWork
         /\ fn = "rotate_integrals" =>
              /\ ~is_tuple /\ ~open_shell /\ bitstring_matrix = <<>>
              /\ num_iters = 0 /\ num_steps_grad = 0 /\ learning_rate = 0
         /\ is_tuple => ~open_shell
         /\ orb = [pc |-> "entry", fn |-> fn, norb |-> norb,
                   \* The caller's objects.
                   hcore |-> "hcore", eri |-> "eri",
                   is_tuple |-> is_tuple, bitstring_matrix |-> bitstring_matrix,
                   heap |-> [caller |-> k_flat, copy |-> <<>>],
                   \* The other arguments.
                   open_shell |-> open_shell, num_iters |-> num_iters,
                   num_steps_grad |-> num_steps_grad,
                   learning_rate |-> learning_rate,
                   \* The arguments as they were on entry.
                   entry |-> [hcore |-> "hcore", eri |-> "eri",
                              bitstring_matrix |-> bitstring_matrix,
                              k_flat |-> k_flat],
                   \* The locals of optimize_orbitals.
                   k_flat |-> "caller", ci_strs |-> <<>>, nelec |-> <<>>,
                   eri_phys |-> <<>>, iter |-> 0,
                   hcore_rot |-> <<>>, eri_rot_chem |-> <<>>,
                   e_qsci |-> <<>>, dm1 |-> <<>>, dm2 |-> <<>>,
                   dm1a |-> <<>>, dm1b |-> <<>>,
                   \* The locals of _optimize_orbitals_sci.
                   step |-> 0, prev_update |-> <<>>,
                   \* What was done, in order, and how the call ended.
                   trace |-> <<>>, err |-> "none", ret |-> <<>>]
  /\ codec = CodecIdle
  /\ expand = ExpandIdle
  /\ gen = GenIdle
  /\ sci = SciIdle
  /\ solve = SolveIdle

\* A call of rotate_integrals(hcore, eri, k_flat) by the user.
RotateIntegralsCall ==
  /\ orb.pc = "entry"
  /\ orb.fn = "rotate_integrals"
  /\ LET res == rotate_integrals(orb.hcore, orb.eri, orb.heap[orb.k_flat], orb.norb)
     IN  orb' = [orb EXCEPT
           !.pc = IF res.err = "none" THEN "returned" ELSE "raised",
           !.err = res.err, !.ret = res.val,
           !.trace = [q \in 1..Len(res.built) |-> [ev |-> "generator", k |-> res.built[q]]]]
  /\ UNCHANGED <<codec, expand, gen, sci, solve>>

\* optimize_orbitals, lines 253-259: the length of k_flat.
OptCheckKFlat ==
  /\ orb.pc = "entry"
  /\ orb.fn = "optimize_orbitals"
  /\ IF Len(orb.heap[orb.k_flat]) # NumParams(orb.norb)
     THEN orb' = [orb EXCEPT !.pc = "raised", !.err = "ValueError"]
     ELSE orb' = [orb EXCEPT !.pc = "convert"]
  /\ UNCHANGED <<codec, expand, gen, sci, solve>>

OptConvert_NoCopy ==
  /\ orb.pc = "convert"
  /\ LET ci_strs == IF orb.is_tuple THEN orb.bitstring_matrix
                    ELSE bitstring_matrix_to_ci_strs(orb.bitstring_matrix, orb.norb,
                                                     orb.open_shell)
         checked == _check_ci_strs(ci_strs)
     IN  IF checked.err # "none"
         THEN orb' = [orb EXCEPT !.pc = "raised", !.err = checked.err]
         ELSE orb' = [orb EXCEPT
                !.pc = "loop",
                !.ci_strs = checked.val,
                !.nelec = <<HammingWeight(checked.val[1][1]),
                            HammingWeight(checked.val[2][1])>>,
                !.eri_phys = Transpose(<<0, 2, 3, 1>>, orb.eri),
                !.iter = 0]
  /\ UNCHANGED <<codec, expand, gen, sci, solve>>

\* optimize_orbitals, lines 260-278: the configurations, the electron counts,
\* the copy of k_flat and the integrals in physicist ordering.
OptConvert ==
  /\ orb.pc = "convert"
  /\ LET ci_strs == IF orb.is_tuple THEN orb.bitstring_matrix
                    ELSE bitstring_matrix_to_ci_strs(orb.bitstring_matrix, orb.norb,
                                                     orb.open_shell)
         checked == _check_ci_strs(ci_strs)
     IN  IF checked.err # "none"
         THEN orb' = [orb EXCEPT !.pc = "raised", !.err = checked.err]
         ELSE orb' = [orb EXCEPT
                !.pc = "loop",
                !.ci_strs = checked.val,
                !.nelec = <<HammingWeight(checked.val[1][1]),
                            HammingWeight(checked.val[2][1])>>,
                !.heap = [orb.heap EXCEPT !.copy = orb.heap[orb.k_flat]],
                !.k_flat = "copy",
                !.eri_phys = Transpose(<<0, 2, 3, 1>>, orb.eri),
                !.iter = 0]
  /\ UNCHANGED <<codec, expand, gen, sci, solve>>

\* Lines 281-282: rotate the integrals with the current k_flat.
Rotate ==
  /\ orb.pc = "loop"
  /\ orb.iter < orb.num_iters
  /\ LET res == rotate_integrals(orb.hcore, orb.eri_phys, orb.heap[orb.k_flat], orb.norb)
         built == [q \in 1..Len(res.built) |-> [ev |-> "generator", k |-> res.built[q]]]
     IN  IF res.err # "none"
         THEN orb' = [orb EXCEPT !.pc = "raised", !.err = res.err,
                                 !.trace = orb.trace \o built]
         ELSE orb' = [orb EXCEPT
                !.pc = "diagonalize",
                !.hcore_rot = res.val[1],
                !.eri_rot_chem = Transpose(<<0, 3, 1, 2>>, res.val[2]),
                !.trace = orb.trace \o built \o
                          <<[ev |-> "rotate", k |-> orb.heap[orb.k_flat],
                             hcore |-> orb.hcore, eri |-> orb.eri_phys]>>]
  /\ UNCHANGED <<codec, expand, gen, sci, solve>>

\* Lines 285-300: the CI solver on the rotated integrals, and the RDMs.
Diagonalize ==
  /\ orb.pc = "diagonalize"
  /\ LET solved == kernel_fixed_space(orb.hcore_rot, orb.eri_rot_chem, orb.norb,
                                      orb.nelec, orb.ci_strs)
         rdm12  == make_rdm12(solved[2])
         rdm1s  == make_rdm1s(solved[2])
     IN  orb' = [orb EXCEPT
           !.pc = "optimize",
           !.e_qsci = solved[1],
           !.dm1 = rdm12[1],
           !.dm2 = Transpose(<<0, 2, 3, 1>>, rdm12[2]),
           !.dm1a = rdm1s[1], !.dm1b = rdm1s[2],
           \* _optimize_orbitals_sci is entered: prev_update = np.zeros(len(k_flat))
           !.step = 0,
           !.prev_update = [i \in 1..Len(orb.heap[orb.k_flat]) |-> 0],
           !.trace = Append(orb.trace,
                       [ev |-> "ci", hcore |-> orb.hcore_rot, eri |-> orb.eri_rot_chem,
                        ci_strs |-> orb.ci_strs, nelec |-> orb.nelec])]
  /\ UNCHANGED <<codec, expand, gen, sci, solve>>

GradientStep_IgnoresLearningRate ==
  /\ orb.pc = "optimize"
  /\ orb.step < orb.num_steps_grad
  /\ \E grad \in Gradients(Len(orb.heap[orb.k_flat])) :
       LET k == orb.heap[orb.k_flat]
           update == [i \in 1..Len(k) |->
                        grad[i] * Scale
                          + (MomentumNum * orb.prev_update[i]) \div MomentumDen]
       IN  orb' = [orb EXCEPT
             !.step = orb.step + 1,
             !.prev_update = update,
             !.heap = [orb.heap EXCEPT
                         ![orb.k_flat] = [i \in 1..Len(k) |-> k[i] - update[i]]],
             !.trace = Append(orb.trace,
                         [ev |-> "gradient", dm1 |-> orb.dm1, dm2 |-> orb.dm2,
                          hcore |-> orb.hcore, eri |-> orb.eri_phys, k |-> k,
                          grad |-> grad,
                          k_new |-> [i \in 1..Len(k) |-> k[i] - update[i]]])]
  /\ UNCHANGED <<codec, expand, gen, sci, solve>>

\* One pass of the loop of _optimize_orbitals_sci: the gradient at the
\* current k_flat, the velocity, and the update of k_flat in place.  The
\* velocity is a multiple of MomentumDen units as long as steps remain, so
\* the division is exact.
GradientStep ==
  /\ orb.pc = "optimize"
  /\ orb.step < orb.num_steps_grad
  /\ \E grad \in Gradients(Len(orb.heap[orb.k_flat])) :
       LET k == orb.heap[orb.k_flat]
           update == [i \in 1..Len(k) |->
                        orb.learning_rate * grad[i] * Scale
                          + (MomentumNum * orb.prev_update[i]) \div MomentumDen]
       IN  orb' = [orb EXCEPT
             !.step = orb.step + 1,
             !.prev_update = update,
             !.heap = [orb.heap EXCEPT
                         ![orb.k_flat] = [i \in 1..Len(k) |-> k[i] - update[i]]],
             !.trace = Append(orb.trace,
                         [ev |-> "gradient", dm1 |-> orb.dm1, dm2 |-> orb.dm2,
                          hcore |-> orb.hcore, eri |-> orb.eri_phys, k |-> k,
                          grad |-> grad,
                          k_new |-> [i \in 1..Len(k) |-> k[i] - update[i]]])]
  /\ UNCHANGED <<codec, expand, gen, sci, solve>>

EndCycle_StopsWhenStill ==
  /\ orb.pc = "optimize"
  /\ \/ orb.step >= orb.num_steps_grad
     \/ orb.step > 0 /\ \A i \in 1..Len(orb.prev_update) : orb.prev_update[i] = 0
  /\ orb' = [orb EXCEPT !.pc = "loop", !.iter = orb.iter + 1]
  /\ UNCHANGED <<codec, expand, gen, sci, solve>>

\* _optimize_orbitals_sci returns and the cycle ends.
EndCycle ==
  /\ orb.pc = "optimize"
  /\ orb.step >= orb.num_steps_grad
  /\ orb' = [orb EXCEPT !.pc = "loop", !.iter = orb.iter + 1]
  /\ UNCHANGED <<codec, expand, gen, sci, solve>>

\* Line 308: the return; e_qsci, dm1a and dm1b are bound by the first cycle
\* only, and the read of an unbound local raises UnboundLocalError.
Return ==
  /\ orb.pc = "loop"
  /\ orb.iter >= orb.num_iters
  /\ IF orb.iter = 0
     THEN orb' = [orb EXCEPT !.pc = "raised", !.err = "UnboundLocalError"]
     ELSE orb' = [orb EXCEPT
            !.pc = "returned",
            !.ret = <<orb.e_qsci, orb.heap[orb.k_flat],
                      <<Diagonal(orb.dm1a), Diagonal(orb.dm1b)>>>>]
  /\ UNCHANGED <<codec, expand, gen, sci, solve>>

OrbNext ==
  \/ RotateIntegralsCall
  \/ OptCheckKFlat
  \/ OptConvert
  \/ Rotate
  \/ Diagonalize
  \/ GradientStep
  \/ EndCycle
  \/ Return

SpecOrb == OrbInit /\ [][OrbNext]_vars

(***************************************************************************)
(* Properties of rotate_integrals and optimize_orbitals.                   *)
(***************************************************************************)
\* The caller's objects hold what they held on entry.
ArgumentsUnchanged ==
  /\ orb.hcore = orb.entry.hcore
  /\ orb.eri = orb.entry.eri
  /\ orb.bitstring_matrix = orb.entry.bitstring_matrix
  /\ orb.heap.caller = orb.entry.k_flat

\* C5: with len(k_flat) # n(n-1)/2 both rotate_integrals and
\* optimize_orbitals raise, before a generator is built, before any call of
\* the CI solver and before any gradient step, the arguments unchanged.
C5_LengthCheckedEagerly ==
  (orb.pc \notin {"idle", "entry"} /\ Len(orb.entry.k_flat) # NumParams(orb.norb)) =>
     /\ orb.pc = "raised"
     /\ orb.err = "ValueError"
     /\ orb.trace = <<>>
     /\ ArgumentsUnchanged

\* optimize_orbitals rejects a k_flat that is too long although the
\* bitstring matrix, which has no row, would be rejected too.
C5_Witness ==
  /\ orb.pc = "raised"
  /\ orb.fn = "optimize_orbitals"
  /\ Len(orb.entry.k_flat) > NumParams(orb.norb)
  /\ ~orb.is_tuple
  /\ orb.bitstring_matrix = <<>>
  /\ orb.num_iters > 0

\* The events of a cycle: a generator, a rotation, a call of the CI solver
\* and num_steps_grad gradient steps.
CycleLength == 3 + orb.num_steps_grad

\* The k_flat that is current when cycle c (from 0) starts, by the trace.
KFlatAtStart(c) ==
  IF c = 0 THEN orb.entry.k_flat
  ELSE IF orb.num_steps_grad = 0 THEN orb.trace[(c - 1) * CycleLength + 2].k
  ELSE orb.trace[c * CycleLength].k_new

\* What the CI solver returns for the call an event records.
SolverCall(ev) ==
  [h1e |-> ev.hcore, eri |-> ev.eri, norb |-> orb.norb, nelec |-> ev.nelec,
   ci_strs |-> ev.ci_strs]

EnergyOf(ev) == [op |-> "energy", of |-> SolverCall(ev)]

AmplitudesOf(ev) == [op |-> "amplitudes", of |-> SolverCall(ev)]

\* Cycle c of the trace is Rotate with the k_flat current at its start,
\* Diagonalize on the integrals just rotated, and num_steps_grad gradient
\* steps with the RDMs of that diagonalization, each at the k_flat the
\* previous one left.
CycleInOrder(c) ==
  LET base   == c * CycleLength
      k      == KFlatAtStart(c)
      K      == _antisymmetric_matrix_from_upper_tri(k, orb.norb)
      rotate == orb.trace[base + 2]
      ci     == orb.trace[base + 3]
  IN  /\ orb.trace[base + 1] = [ev |-> "generator", k |-> k]
      /\ rotate.ev = "rotate" /\ rotate.k = k
      /\ ci.ev = "ci"
      /\ ci.hcore = [op |-> "rotate", of |-> rotate.hcore, K |-> K]
      /\ ci.eri = Transpose(<<0, 3, 1, 2>>, [op |-> "rotate", of |-> rotate.eri, K |-> K])
      /\ ci.ci_strs = orb.ci_strs
      /\ \A j \in 1..orb.num_steps_grad :
           LET g == orb.trace[base + 3 + j]
           IN  /\ g.ev = "gradient"
               /\ g.dm1 = [op |-> "dm1", of |-> AmplitudesOf(ci)]
               /\ g.dm2 = Transpose(<<0, 2, 3, 1>>, [op |-> "dm2_chem", of |-> AmplitudesOf(ci)])
               /\ g.k = IF j = 1 THEN k ELSE orb.trace[base + 3 + j - 1].k_new

\* C10: for num_iters >= 1 and valid input optimize_orbitals runs exactly
\* num_iters cycles, each Rotate, Diagonalize, Optimize in order, never
\* stops before (it can always take its next step), and returns the energy
\* and occupancies of the last diagonalization with the k_flat after the
\* last Optimize.
C10_ExactlyNumItersCycles ==
  (orb.fn = "optimize_orbitals" /\ orb.num_iters >= 1
     /\ orb.pc \in {"loop", "diagonalize", "optimize", "returned"}) =>
     /\ orb.err = "none"
     /\ Len(orb.trace) <= orb.num_iters * CycleLength
     /\ orb.pc # "returned" => ENABLED OrbNext
     /\ \A c \in 0..(orb.num_iters - 1) :
          Len(orb.trace) >= (c + 1) * CycleLength => CycleInOrder(c)
     /\ orb.pc = "returned" =>
          /\ Len(orb.trace) = orb.num_iters * CycleLength
          /\ LET last == orb.trace[(orb.num_iters - 1) * CycleLength + 3]
             IN  orb.ret = <<EnergyOf(last), KFlatAtStart(orb.num_iters),
                             <<Diagonal([op |-> "dm1a", of |-> AmplitudesOf(last)]),
                               Diagonal([op |-> "dm1b", of |-> AmplitudesOf(last)])>>>>

\* A run of several cycles of a gradient step each, in which k_flat moved
\* in the first cycle and the velocity was zero in the last, has returned.
C10_Witness ==
  /\ orb.pc = "returned"
  /\ orb.fn = "optimize_orbitals"
  /\ orb.num_iters >= 2
  /\ orb.num_steps_grad >= 1
  /\ orb.trace[CycleLength].k_new # orb.entry.k_flat
  /\ \A i \in 1..Len(orb.prev_update) : orb.prev_update[i] = 0
  /\ orb.ret[2] # orb.entry.k_flat

\* The events of the trace that read the integrals.
IntegralReads == {i \in 1..Len(orb.trace) : orb.trace[i].ev \in {"rotate", "gradient"}}

\* C11: optimize_orbitals mutates none of its arguments: hcore, eri, the
\* configuration input and the caller's k_flat hold their entry values in
\* every state of the call and on return, every Rotate and every gradient
\* step reads the unrotated integrals of the caller, and the only k_flat
\* that changes is the copy the loop made.
C11_ArgumentsNeverMutated ==
  orb.fn = "optimize_orbitals" =>
     /\ ArgumentsUnchanged
     /\ \A i \in IntegralReads :
          /\ orb.trace[i].hcore = orb.entry.hcore
          /\ orb.trace[i].eri = Transpose(<<0, 2, 3, 1>>, orb.entry.eri)
     /\ orb.pc \in {"loop", "diagonalize", "optimize", "returned"} =>
          orb.k_flat = "copy"

\* The second cycle has rotated and diagonalized with a k_flat the first
\* cycle moved, and the caller's array still holds the entry value.
C11_Witness ==
  /\ orb.fn = "optimize_orbitals"
  /\ orb.pc = "optimize"
  /\ orb.iter = 1
  /\ orb.heap.copy # orb.entry.k_flat
  /\ orb.heap.caller = orb.entry.k_flat
  /\ orb.trace[Len(orb.trace) - 1].ev = "rotate"
  /\ orb.trace[Len(orb.trace) - 1].k = orb.heap.copy

\* C13: with learning_rate = 0 the velocity is zero after every gradient
\* step whatever the gradient, so k_flat holds its entry value after any
\* number of steps and iterations, and optimize_orbitals returns a k_flat
\* equal to its input.
C13_ZeroLearningRateKeepsKFlat ==
  (orb.fn = "optimize_orbitals" /\ orb.learning_rate = 0
     /\ orb.pc \in {"loop", "diagonalize", "optimize", "returned"}) =>
     /\ orb.heap[orb.k_flat] = orb.entry.k_flat
     /\ \A i \in 1..Len(orb.trace) :
          orb.trace[i].ev = "gradient" => orb.trace[i].k_new = orb.entry.k_flat
     /\ orb.pc = "optimize" =>
          \A i \in 1..Len(orb.prev_update) : orb.prev_update[i] = 0
     /\ orb.pc = "returned" => orb.ret[2] = orb.entry.k_flat

\* Two iterations of two gradient steps with learning_rate = 0 have
\* returned, and the last gradient was not zero.
C13_Witness ==
  /\ orb.fn = "optimize_orbitals"
  /\ orb.pc = "returned"
  /\ orb.learning_rate = 0
  /\ orb.num_iters >= 2
  /\ orb.num_steps_grad >= 2
  /\ \E i \in 1..Len(orb.entry.k_flat) : orb.trace[Len(orb.trace)].grad[i] # 0

\* The input passes the checks of optimize_orbitals.
OrbInputValid ==
  /\ Len(orb.entry.k_flat) = NumParams(orb.norb)
  /\ _check_ci_strs(IF orb.is_tuple THEN orb.entry.bitstring_matrix
                    ELSE bitstring_matrix_to_ci_strs(orb.entry.bitstring_matrix,
                                                     orb.norb, orb.open_shell)).err = "none"

\* C15: for num_iters = 0 and valid input optimize_orbitals performs no
\* Rotate, no call of the CI solver and no gradient step, and terminates
\* normally, returning a result whose k_flat equals the input.
C15_ZeroIterationsReturns ==
  (orb.fn = "optimize_orbitals" /\ orb.num_iters = 0 /\ OrbInputValid
     /\ orb.pc \in {"returned", "raised"}) =>
     /\ orb.trace = <<>>
     /\ orb.pc = "returned"
     /\ orb.ret[2] = orb.entry.k_flat

(***************************************************************************)
(* SCIState.  An array is known by what the class reads of it: whether it  *)
(* is an ndarray already and its shape, a sequence of dimensions.  The     *)
(* determinant arrays are one-dimensional.                                 *)
(***************************************************************************)
MaxRank == 3

MaxSciLen == 2

Shapes == SeqsUpTo(0..MaxSciLen, MaxRank)

\* np.asarray keeps the shape and gives an ndarray.
np_asarray(a) == [ndarray |-> TRUE, shape |-> a.shape]

\* len() of an array of one dimension or more.
len(a) == a.shape[1]

__post_init___SizeOnly(amplitudes, ci_strs_a, ci_strs_b) ==
  LET converted == np_asarray(amplitudes)
  IN  IF \/ Len(converted.shape) # 2
         \/ converted.shape[1] * converted.shape[2] # len(ci_strs_a) * len(ci_strs_b)
      THEN [err |-> "ValueError", obj |-> <<>>]
      ELSE [err |-> "none",
            obj |-> <<[amplitudes |-> converted, ci_strs_a |-> ci_strs_a,
                       ci_strs_b |-> ci_strs_b]>>]

\* The generated __init__ followed by __post_init__: the object, or the
\* exception and no object.
__post_init__(amplitudes, ci_strs_a, ci_strs_b) ==
  LET converted == np_asarray(amplitudes)
  IN  IF converted.shape # <<len(ci_strs_a), len(ci_strs_b)>>
      THEN [err |-> "ValueError", obj |-> <<>>]
      ELSE [err |-> "none",
            obj |-> <<[amplitudes |-> converted, ci_strs_a |-> ci_strs_a,
                       ci_strs_b |-> ci_strs_b]>>]

\* The arguments of a construction, or the arrays of an .npz file.
SciArguments ==
  {[amplitudes |-> [ndarray |-> nd, shape |-> sh],
    ci_strs_a |-> [ndarray |-> TRUE, shape |-> <<la>>],
    ci_strs_b |-> [ndarray |-> TRUE, shape |-> <<lb>>]] :
     nd \in BOOLEAN, sh \in Shapes, la \in 0..MaxSciLen, lb \in 0..MaxSciLen}

\* np.savez writes arrays, so what a file holds is an ndarray.
SciFiles == {f \in SciArguments : f.amplitudes.ndarray}

\* A direct construction with some arguments, or a load of some file.
SciInit ==
  /\ \/ \E args \in SciArguments :
          sci = [pc |-> "call", args |-> args, file |-> <<>>, obj |-> <<>>,
                 err |-> "none", saved |-> FALSE]
     \/ \E f \in SciFiles :
          sci = [pc |-> "file", args |-> f, file |-> <<f>>, obj |-> <<>>,
                 err |-> "none", saved |-> FALSE]
  /\ codec = CodecIdle
  /\ expand = ExpandIdle
  /\ gen = GenIdle
  /\ orb = OrbIdle
  /\ solve = SolveIdle

\* SCIState(amplitudes, ci_strs_a, ci_strs_b)
Construct ==
  /\ sci.pc = "call"
  /\ LET res == __post_init__(sci.args.amplitudes, sci.args.ci_strs_a, sci.args.ci_strs_b)
     IN  sci' = [sci EXCEPT
           !.pc = IF res.err = "none" THEN "constructed" ELSE "raised",
           !.obj = res.obj,
           !.err = res.err]
  /\ UNCHANGED <<codec, expand, gen, orb, solve>>

\* save: np.savez of the three arrays of the object.
Save ==
  /\ sci.pc = "constructed"
  /\ ~sci.saved
  /\ sci' = [sci EXCEPT
       !.pc = "file",
       !.file = <<sci.obj[1]>>,
       !.args = sci.obj[1],
       !.obj = <<>>,
       !.saved = TRUE]
  /\ UNCHANGED <<codec, expand, gen, orb, solve>>

\* load: cls(data["amplitudes"], data["ci_strs_a"], data["ci_strs_b"])
Load ==
  /\ sci.pc = "file"
  /\ LET data == sci.file[1]
         res  == __post_init__(data.amplitudes, data.ci_strs_a, data.ci_strs_b)
     IN  sci' = [sci EXCEPT
           !.pc = IF res.err = "none" THEN "constructed" ELSE "raised",
           !.obj = res.obj,
           !.err = res.err]
  /\ UNCHANGED <<codec, expand, gen, orb, solve>>

SciNext == Construct \/ Save \/ Load

SpecSci == SciInit /\ [][SciNext]_vars

\* C12: every SCIState that exists, constructed directly or by load, has
\* amplitudes of shape exactly (len(ci_strs_a), len(ci_strs_b)); a
\* construction with amplitudes of any other shape raises and yields no
\* object.
C12_AmplitudesShapeInvariant ==
  /\ \A i \in 1..Len(sci.obj) :
       sci.obj[i].amplitudes.shape = <<len(sci.obj[i].ci_strs_a), len(sci.obj[i].ci_strs_b)>>
  /\ (sci.pc \in {"constructed", "raised"}
        /\ sci.args.amplitudes.shape # <<len(sci.args.ci_strs_a), len(sci.args.ci_strs_b)>>) =>
       /\ sci.pc = "raised"
       /\ sci.err = "ValueError"
       /\ sci.obj = <<>>

\* A load fails on a file whose amplitudes have as many elements as the
\* product of the two lengths, in two dimensions, but another shape.
C12_Witness ==
  /\ sci.pc = "raised"
  /\ sci.file # <<>>
  /\ Len(sci.args.amplitudes.shape) = 2
  /\ sci.args.amplitudes.shape[1] = len(sci.args.ci_strs_b)
  /\ sci.args.amplitudes.shape[2] = len(sci.args.ci_strs_a)
  /\ len(sci.args.ci_strs_a) # len(sci.args.ci_strs_b)
  /\ sci.obj = <<>>

(***************************************************************************)
(* _generate_bitstrings.  A string of "0" and "1" is a sequence of         *)
(* booleans, as the rows of the matrix the function returns.               *)
(***************************************************************************)
RECURSIVE combinations(_, _, _)
\* itertools.combinations(range(n), k), the part choosing from lo..n-1: the
\* k-subsets in lexicographic order.
combinations(lo, n, k) ==
  IF k = 0 THEN <<{}>>
  ELSE IF lo >= n THEN <<>>
  ELSE LET first == combinations(lo + 1, n, k - 1)
       IN  [i \in 1..Len(first) |-> {lo} \cup first[i]] \o combinations(lo + 1, n, k)

_get_strings(n, k) ==
  LET combs == combinations(0, n, k)
  IN  [c \in 1..Len(combs) |-> [i \in 1..n |-> (i - 1) \in combs[c]]]

\* int(x / 2): the quotient truncated towards zero.
IntHalf(x) == IF x >= 0 THEN x \div 2 ELSE -((-x) \div 2)

\* ch * n for a string ch of one character; empty for n <= 0.
Repeat(ch, n) == [i \in 1..Max({n, 0}) |-> ch]

\* The rows v + b + d + v + a + d, a in alpha_strings the outer loop and b
\* in beta_strings the inner one.
_generate_bitstrings(norb, neleca, nelecb, n_orb, n_alpha, n_beta) ==
  LET alpha_strings == _get_strings(n_orb, n_alpha)
      beta_strings  == _get_strings(n_orb, n_beta)
      d_orb         == neleca + nelecb - n_alpha - n_beta
      d             == Repeat(TRUE, IntHalf(d_orb))
      v             == Repeat(FALSE, IntHalf(2 * (norb - n_orb) - d_orb))
      Nb            == Len(beta_strings)
  IN  [i \in 1..(Len(alpha_strings) * Nb) |->
         v \o beta_strings[((i - 1) % Nb) + 1] \o d
           \o v \o alpha_strings[((i - 1) \div Nb) + 1] \o d]

(***************************************************************************)
(* solve_fermion on a bitstring matrix: the conversion and the check, the  *)
(* subspace determinants appended one index per pass of the loop, and the  *)
(* call of the CI solver.  norb is hcore.shape[0], half the width of the   *)
(* matrix.                                                                 *)
(***************************************************************************)
MaxSolveBits == 6

MaxSolveNorb == 3

SolveRows(norb) == MaxSolveBits \div (2 * norb)

\* subspace_orb, subspace_alpha and subspace_beta.
SubspaceSizes == 0..MaxSolveNorb

SolveInit ==
  /\ \E norb \in 1..MaxSolveNorb, open_shell \in BOOLEAN, subspace \in BOOLEAN :
       \E m \in SeqsUpTo(Rows(norb), SolveRows(norb)) :
         \E n_orb \in SubspaceSizes, n_alpha \in SubspaceSizes, n_beta \in SubspaceSizes :
           /\ ~subspace => (n_orb = 0 /\ n_alpha = 0 /\ n_beta = 0)
           /\ solve = [pc |-> "entry", norb |-> norb, bitstring_matrix |-> m,
                       open_shell |-> open_shell, subspace |-> subspace,
                       subspace_orb |-> n_orb, subspace_alpha |-> n_alpha,
                       subspace_beta |-> n_beta, ci_strs |-> <<>>, num_up |-> 0,
                       num_dn |-> 0, subspace_ci |-> <<>>, ind |-> 0,
                       handed |-> <<>>, ret |-> <<>>, err |-> "none"]
  /\ codec = CodecIdle
  /\ expand = ExpandIdle
  /\ gen = GenIdle
  /\ orb = OrbIdle
  /\ sci = SciIdle

\* Lines 133-140: the determinants of the matrix, checked, and the electron
\* counts read off the first determinant of each sector.
SolveConvert ==
  /\ solve.pc = "entry"
  /\ LET checked == _check_ci_strs(bitstring_matrix_to_ci_strs(
                       solve.bitstring_matrix, solve.norb, solve.open_shell))
     IN  IF checked.err # "none"
         THEN solve' = [solve EXCEPT !.pc = "raised", !.err = checked.err]
         ELSE solve' = [solve EXCEPT
                !.pc = IF solve.subspace THEN "subspace" ELSE "kernel",
                !.ci_strs = checked.val,
                !.num_up = HammingWeight(checked.val[1][1]),
                !.num_dn = HammingWeight(checked.val[2][1])]
  /\ UNCHANGED <<codec, expand, gen, orb, sci>>

\* Lines 143-147: the subspace matrix and its determinants.  A matrix
\* without rows has one dimension, and shape[1] raises.
GenerateSubspace ==
  /\ solve.pc = "subspace"
  /\ LET subspace_m == _generate_bitstrings(solve.norb, solve.num_up, solve.num_dn,
                          solve.subspace_orb, solve.subspace_alpha, solve.subspace_beta)
     IN  IF subspace_m = <<>>
         THEN solve' = [solve EXCEPT !.pc = "raised", !.err = "IndexError"]
         ELSE solve' = [solve EXCEPT
                !.pc = "append",
                !.subspace_ci = bitstring_matrix_to_ci_strs(
                                  subspace_m, Len(subspace_m[1]) \div 2, solve.open_shell),
                !.ind = 0]
  /\ UNCHANGED <<codec, expand, gen, orb, sci>>

\* x in a
Contains(a, x) == \E i \in 1..Len(a) : a[i] = x

\* One pass of the loop of lines 148-157.  subspace_ci[1][ind] raises when
\* subspace_ci[1] is the shorter array; np.sort of two arrays of different
\* lengths raises.
AppendSubspace ==
  /\ solve.pc = "append"
  /\ solve.ind < Len(solve.subspace_ci[1])
  /\ IF solve.ind >= Len(solve.subspace_ci[2])
     THEN solve' = [solve EXCEPT !.pc = "raised", !.err = "IndexError"]
     ELSE LET a   == solve.subspace_ci[1][solve.ind + 1]
              b   == solve.subspace_ci[2][solve.ind + 1]
              ups == IF ~Contains(solve.ci_strs[1], a) THEN Append(solve.ci_strs[1], a)
                     ELSE solve.ci_strs[1]
              dns == IF ~Contains(solve.ci_strs[2], b) THEN Append(solve.ci_strs[2], b)
                     ELSE solve.ci_strs[2]
          IN  IF Len(ups) # Len(dns)
              THEN solve' = [solve EXCEPT !.pc = "raised", !.err = "ValueError",
                                          !.ci_strs = <<ups, dns>>]
              ELSE solve' = [solve EXCEPT !.ci_strs = <<np_sort(ups), np_sort(dns)>>,
                                          !.ind = solve.ind + 1]
  /\ UNCHANGED <<codec, expand, gen, orb, sci>>

\* Lines 160-190: the call of kernel_fixed_space with ci_strs and
\* (num_up, num_dn), and the results made of what it returns.
SolveKernel ==
  /\ \/ solve.pc = "kernel"
     \/ solve.pc = "append" /\ solve.ind >= Len(solve.subspace_ci[1])
  /\ LET call    == [norb |-> solve.norb, nelec |-> <<solve.num_up, solve.num_dn>>,
                     ci_strs |-> solve.ci_strs]
         sci_vec == [op |-> "amplitudes", of |-> call]
         shape   == <<Len(solve.ci_strs[1]), Len(solve.ci_strs[2])>>
         state   == __post_init__([ndarray |-> TRUE, shape |-> shape],
                                  [ndarray |-> TRUE, shape |-> <<shape[1]>>],
                                  [ndarray |-> TRUE, shape |-> <<shape[2]>>])
     IN  solve' = [solve EXCEPT
           !.pc = "returned",
           !.handed = <<call>>,
           !.ret = <<[op |-> "energy", of |-> call], state.obj[1],
                     <<Diagonal([op |-> "dm1a", of |-> sci_vec]),
                       Diagonal([op |-> "dm1b", of |-> sci_vec])>>,
                     [op |-> "spin_square", of |-> sci_vec]>>]
  /\ UNCHANGED <<codec, expand, gen, orb, sci>>

SolveNext == SolveConvert \/ GenerateSubspace \/ AppendSubspace \/ SolveKernel

SpecSolve == SolveInit /\ [][SolveNext]_vars

\* C14: with subspace = True, for every norb, subspace_orb, subspace_alpha,
\* subspace_beta and every input, the determinant arrays handed to the CI
\* solver after the subspace determinants were appended have every alpha
\* determinant of Hamming weight num_up, every beta determinant of Hamming
\* weight num_dn, and each array sorted without duplicates.
C14_SubspaceKeepsParticleNumber ==
  (solve.subspace /\ solve.pc = "returned") =>
     LET call == solve.handed[1]
     IN  /\ \A i \in 1..Len(call.ci_strs[1]) :
              HammingWeight(call.ci_strs[1][i]) = call.nelec[1]
         /\ \A i \in 1..Len(call.ci_strs[2]) :
              HammingWeight(call.ci_strs[2][i]) = call.nelec[2]
         /\ StrictlyIncreasing(call.ci_strs[1])
         /\ StrictlyIncreasing(call.ci_strs[2])

====
